---- MODULE Spec2Model ----
(***************************************************************************)
(* A model of unifysync (src/unifysync.py): the session directory created  *)
(* by the __main__ block, and download_and_merge with the helpers it calls *)
(* (get_extension_from_url, download_file, merge_media_files).             *)
(*                                                                         *)
(* A Python str is a sequence of one-character strings.  A pathlib path is *)
(* a record [abs, parts]: whether it is anchored at the root, and its      *)
(* components.  The file system is POSIX without symbolic links.           *)
(***************************************************************************)
EXTENDS Integers, Sequences, FiniteSets, TLC

\* ------------------------------------------------------------------ bounds

\* Length of a session identifier (the program uses 8, see IdAlphabet).
IdLength == 1
\* Number of program runs that share the temp root in SpecSessions.
NumRuns == 2
\* Longest requested output path enumerated in SpecResolve.
MaxLen == 4

\* ----------------------------------------------------------------- strings

\* str.strip() removes whitespace; the space stands for all of it.
Whitespace == {" "}

RECURSIVE LStrip(_)
LStrip(s) ==
    IF s # <<>> /\ Head(s) \in Whitespace THEN LStrip(Tail(s)) ELSE s

RECURSIVE RStrip(_)
RStrip(s) ==
    IF s # <<>> /\ s[Len(s)] \in Whitespace
    THEN RStrip(SubSeq(s, 1, Len(s) - 1))
    ELSE s

\* str.strip()
Strip(s) == LStrip(RStrip(s))

\* str.replace(old, new) for a non-empty old: every non-overlapping
\* occurrence, left to right.
RECURSIVE Replace(_, _, _)
Replace(s, old, new) ==
    IF Len(s) < Len(old) THEN s
    ELSE IF SubSeq(s, 1, Len(old)) = old
         THEN new \o Replace(SubSeq(s, Len(old) + 1, Len(s)), old, new)
         ELSE <<Head(s)>> \o Replace(Tail(s), old, new)

\* The largest index of character c in s, 0 when there is none
\* (str.rfind(c) + 1).
RECURSIVE RFind(_, _)
RFind(s, c) ==
    IF s = <<>> THEN 0
    ELSE IF s[Len(s)] = c THEN Len(s)
    ELSE RFind(SubSeq(s, 1, Len(s) - 1), c)

EndsWith(s, t) ==
    /\ Len(s) >= Len(t)
    /\ SubSeq(s, Len(s) - Len(t) + 1, Len(s)) = t

\* ------------------------------------------------------------------- paths

Dot == <<".">>
DotDot == <<".", ".">>

\* s split at "/": the components, empty ones included.
RECURSIVE SplitSlash(_, _)
SplitSlash(s, cur) ==
    IF s = <<>> THEN <<cur>>
    ELSE IF Head(s) = "/" THEN <<cur>> \o SplitSlash(Tail(s), <<>>)
    ELSE SplitSlash(Tail(s), Append(cur, Head(s)))

RECURSIVE DropEmptyAndDot(_)
DropEmptyAndDot(parts) ==
    IF parts = <<>> THEN <<>>
    ELSE IF Head(parts) = <<>> \/ Head(parts) = Dot
         THEN DropEmptyAndDot(Tail(parts))
         ELSE <<Head(parts)>> \o DropEmptyAndDot(Tail(parts))

\* pathlib.Path(s): empty and "." components are dropped, ".." is kept.
PathOf(s) ==
    [abs   |-> s # <<>> /\ Head(s) = "/",
     parts |-> DropEmptyAndDot(SplitSlash(s, <<>>))]

\* Path(p, name) for a name without a separator.
JoinPath(p, name) == [p EXCEPT !.parts = Append(@, name)]

\* Path.cwd(): the working directory /w.
Cwd == [abs |-> TRUE, parts |-> << <<"w">> >>]

\* ".." steps back one component, and stays at the root.
RECURSIVE Normalize(_, _)
Normalize(done, parts) ==
    IF parts = <<>> THEN done
    ELSE IF Head(parts) = DotDot
         THEN Normalize(IF done = <<>> THEN <<>>
                        ELSE SubSeq(done, 1, Len(done) - 1), Tail(parts))
         ELSE Normalize(Append(done, Head(parts)), Tail(parts))

\* Path.resolve(): absolute and free of "..".
Resolve(p) ==
    [abs   |-> TRUE,
     parts |-> Normalize(<<>>, IF p.abs THEN p.parts ELSE Cwd.parts \o p.parts)]

RECURSIVE JoinSlash(_)
JoinSlash(parts) ==
    IF parts = <<>> THEN <<>>
    ELSE IF Len(parts) = 1 THEN Head(parts)
    ELSE Head(parts) \o <<"/">> \o JoinSlash(Tail(parts))

\* Path.as_posix()
AsPosix(p) ==
    IF p.abs THEN <<"/">> \o JoinSlash(p.parts)
    ELSE IF p.parts = <<>> THEN Dot
    ELSE JoinSlash(p.parts)

\* PurePath.name
Name(p) == IF p.parts = <<>> THEN <<>> ELSE p.parts[Len(p.parts)]

\* PurePath.parent
Parent(p) ==
    IF p.parts = <<>> THEN p
    ELSE [p EXCEPT !.parts = SubSeq(@, 1, Len(@) - 1)]

\* PurePath.suffix: from the last dot of the name, unless that dot is the
\* first or the last character.
SuffixOfName(name) ==
    LET i == RFind(name, ".")
    IN  IF 1 < i /\ i < Len(name) THEN SubSeq(name, i, Len(name)) ELSE <<>>

Suffix(p) == SuffixOfName(Name(p))

\* Path.is_dir(): the path is walked on the file system, so every component
\* before a ".." has to exist.  existing: the directories other than the
\* root, the working directory and its ancestors.
RECURSIVE WalkIsDir(_, _, _)
WalkIsDir(at, parts, existing) ==
    IF parts = <<>> THEN TRUE
    ELSE LET next == IF Head(parts) = DotDot
                     THEN (IF at = <<>> THEN <<>>
                           ELSE SubSeq(at, 1, Len(at) - 1))
                     ELSE Append(at, Head(parts))
         IN  /\ \/ next \in existing
                \/ \E k \in 0..Len(Cwd.parts) : next = SubSeq(Cwd.parts, 1, k)
             /\ WalkIsDir(next, Tail(parts), existing)

IsDir(p, existing) ==
    WalkIsDir(IF p.abs THEN <<>> ELSE Cwd.parts, p.parts, existing)

\* ------------------------------------------------- the program's functions

MP4 == <<".", "m", "p", "4">>
MP3 == <<".", "m", "p", "3">>
MOV == <<".", "m", "o", "v">>

\* generate_random_string(8): every string of IdLength characters.
IdAlphabet == {"x", "y"}
Ids == [1..IdLength -> IdAlphabet]

\* gettempdir(): /t.
SystemTempDir == [abs |-> TRUE, parts |-> << <<"t">> >>]

\* gen_temp_info: the directory .temp-<num> in the temp root.
TempDir(num) ==
    Resolve(JoinPath(SystemTempDir, <<".", "t", "e", "m", "p", "-">> \o num))

\* mimetypes.guess_extension on the content types the probes answer with.
GuessExtension(ctype) ==
    CASE ctype = "video/mp4"       -> MP4
      [] ctype = "video/quicktime" -> MOV
      [] ctype = "audio/mpeg"      -> MP3
      [] OTHER                     -> <<>>

\* What a probe of a URL can meet: urlopen raises, the response has no
\* Content-Type header, or it has one.
ContentTypes ==
    {"video/mp4", "video/quicktime", "audio/mpeg", "application/x-unknown"}
ProbeOutcomes ==
    {[kind |-> "unreachable", ctype |-> ""], [kind |-> "no_header", ctype |-> ""]}
    \cup {[kind |-> "header", ctype |-> c] : c \in ContentTypes}

\* get_extension_from_url: the extension, or <<>> for None.  urlopen's
\* exception and guess_extension(None)'s AttributeError are both caught.
GetExtensionFromUrl(outcome) ==
    IF outcome.kind = "header" THEN GuessExtension(outcome.ctype) ELSE <<>>

\* static_internal_temp_file_extension
StaticExt == <<".", "?">>

RolePrefix(role) ==
    IF role = "video" THEN <<".", "v", "i", "d", "e", "o", "_">>
    ELSE <<".", "a", "u", "d", "i", "o", "_">>

\* Mutant: the video fallback used for both roles.
FallbackExtVideoOnly(role) == MP4

\* The role's fallback extension.
FallbackExt(role) == IF role = "video" THEN MP4 ELSE MP3

\* video_path / audio_path before the probe: <temp_dir>/.<role>_<num>.?
StagedTemplate(role, num) ==
    Resolve(JoinPath(TempDir(num), RolePrefix(role) \o num \o StaticExt))

\* video_path / audio_path after the probe: ".?" replaced in the whole path
\* by the probed extension, or by the fallback when there is none.
StagedPath(role, num, ext) ==
    PathOf(Replace(AsPosix(StagedTemplate(role, num)), StaticExt,
                   IF ext # <<>> THEN ext ELSE FallbackExt(role)))

\* f'output_{temp_num}.mp4'
OutputFileName(num) == <<"o", "u", "t", "p", "u", "t", "_">> \o num \o MP4

\* args.output_path: None without -o, else the text given.
NoRequest == [present |-> FALSE, text |-> <<>>]
Request(text) == [present |-> TRUE, text |-> text]

\* Mutant: the is_dir() test left out.
ResolveOutputPathNoDirTest(req, num, existing) ==
    LET given == IF ~req.present \/ req.text = <<>> THEN Cwd
                 ELSE IF Strip(req.text) = <<>> THEN Cwd
                 ELSE PathOf(req.text)
        named == IF Suffix(given) = <<>>
                 THEN JoinPath(given, OutputFileName(num))
                 ELSE LET abs  == Resolve(given)
                          real == Strip(Replace(Suffix(abs), <<".">>, <<>>))
                      IN  IF real = <<>>
                          THEN PathOf(Replace(AsPosix(abs), Suffix(abs), MP4))
                          ELSE PathOf(Strip(AsPosix(abs)))
    IN  Resolve(named)

\* download_and_merge's output path: the requested path, then the working
\* directory for none or a blank one; a directory or a name without a suffix
\* gets the file output_<num>.mp4 inside it; else a suffix that is blank
\* after its dot is replaced (in the whole path) by .mp4, and any other path
\* is stripped.
ResolveOutputPath(req, num, existing) ==
    LET given == IF ~req.present \/ req.text = <<>> THEN Cwd
                 ELSE IF Strip(req.text) = <<>> THEN Cwd
                 ELSE PathOf(req.text)
        named == IF IsDir(given, existing) \/ Suffix(given) = <<>>
                 THEN JoinPath(given, OutputFileName(num))
                 ELSE LET abs  == Resolve(given)
                          real == Strip(Replace(Suffix(abs), <<".">>, <<>>))
                      IN  IF real = <<>>
                          THEN PathOf(Replace(AsPosix(abs), Suffix(abs), MP4))
                          ELSE PathOf(Strip(AsPosix(abs)))
    IN  Resolve(named)

\* ------------------------------------------------------------------- state

VARIABLES
    pc,            \* each run's position in the program
    temp_num,      \* each run's temp_num; temp_dir is TempDir(temp_num)
    exitStatus,    \* each run's exit status: <<>> while it runs, else <<n>>
    tempRoot,      \* the identifiers whose .temp-<num> directory exists
    ffmpegOnPath,  \* whether which('ffmpeg') finds the tool
    dirs,          \* the directories that exist besides /, /w and the temp root
    requested,     \* args.output_path
    output_path,   \* download_and_merge's output_path once resolved
    video_path,    \* download_and_merge's video_path
    audio_path,    \* download_and_merge's audio_path
    probes,        \* role -> what get_extension_from_url met, per probe made
    fetched,       \* the roles download_file was called for
    files,         \* the roles whose staged file exists on disk
    mergeRuns,     \* how many times the ffmpeg child process was started
    mergeResult,   \* "none", "ok" or "failed": how the child process ended
    steps          \* the statements after the merge that were executed

vars == <<pc, temp_num, exitStatus, tempRoot, ffmpegOnPath, dirs, requested,
          output_path, video_path, audio_path, probes, fetched, files,
          mergeRuns, mergeResult, steps>>

pipelineVars == <<ffmpegOnPath, dirs, requested, output_path, video_path,
                  audio_path, probes, fetched, files, mergeRuns, mergeResult,
                  steps>>

Runs == 1..NumRuns
\* The run whose pipeline Spec follows.
Main == 1

Roles == {"video", "audio"}
NoPath == [abs |-> FALSE, parts |-> <<>>]
NoId == <<>>

\* A run that is over: by exit(), by an uncaught exception (of mkdir before
\* the pipeline, or inside it), or by reaching the end of the script.
Terminal == {"exited", "mkdir_failed", "crashed", "done"}

\* ------------------------------------------------ __main__: the session

\* gen_temp_info (lines 159 and 162): a fresh random identifier.
GenTempInfo(r) ==
    /\ pc[r] = "gen"
    /\ \E num \in Ids : temp_num' = [temp_num EXCEPT ![r] = num]
    /\ pc' = [pc EXCEPT ![r] = "check"]
    /\ UNCHANGED <<exitStatus, tempRoot, pipelineVars>>

\* while temp_dir.exists() (line 161): regenerate, or go on to mkdir.
CheckExists(r) ==
    /\ pc[r] = "check"
    /\ pc' = [pc EXCEPT ![r] = IF temp_num[r] \in tempRoot THEN "gen" ELSE "mkdir"]
    /\ UNCHANGED <<temp_num, exitStatus, tempRoot, pipelineVars>>

\* Mutant: mkdir(exist_ok=True).
MkdirExistOk(r) == TRUE

\* Whether temp_dir.mkdir() creates the directory; it raises FileExistsError
\* when the directory exists.
MkdirSucceeds(r) == temp_num[r] \notin tempRoot

\* temp_dir.mkdir() (line 164); the exception is not caught.
Mkdir(r) ==
    /\ pc[r] = "mkdir"
    /\ IF MkdirSucceeds(r)
       THEN /\ tempRoot' = tempRoot \cup {temp_num[r]}
            /\ pc' = [pc EXCEPT ![r] = "main"]
            /\ UNCHANGED exitStatus
       ELSE /\ pc' = [pc EXCEPT ![r] = "mkdir_failed"]
            /\ exitStatus' = [exitStatus EXCEPT ![r] = <<1>>]
            /\ UNCHANGED tempRoot
    /\ UNCHANGED <<temp_num, pipelineVars>>

\* --------------------------------------------------- download_and_merge

\* Mutant: the missing tool is reported, and the pipeline goes on.
LocateToolNoExit ==
    /\ pc[Main] = "main"
    /\ pc' = [pc EXCEPT ![Main] = "resolve"]
    /\ UNCHANGED <<temp_num, exitStatus, tempRoot, pipelineVars>>

\* which('ffmpeg') and the exit() without it (lines 70-77).
LocateTool ==
    /\ pc[Main] = "main"
    /\ IF ffmpegOnPath
       THEN /\ pc' = [pc EXCEPT ![Main] = "resolve"]
            /\ UNCHANGED exitStatus
       ELSE /\ pc' = [pc EXCEPT ![Main] = "exited"]
            /\ exitStatus' = [exitStatus EXCEPT ![Main] = <<0>>]
    /\ UNCHANGED <<temp_num, tempRoot, pipelineVars>>

\* The output path and the two staged templates (lines 84-107).
ResolveOutput(inputs) ==
    /\ pc[Main] = "resolve"
    /\ \E req \in inputs :
         /\ requested' = req
         /\ output_path' = ResolveOutputPath(req, temp_num[Main], dirs)
    /\ video_path' = StagedTemplate("video", temp_num[Main])
    /\ audio_path' = StagedTemplate("audio", temp_num[Main])
    /\ pc' = [pc EXCEPT ![Main] = "probe_video"]
    /\ UNCHANGED <<temp_num, exitStatus, tempRoot, ffmpegOnPath, dirs, probes,
                   fetched, files, mergeRuns, mergeResult, steps>>

\* get_extension_from_url(video_url) and the video path (lines 111-116).
ProbeVideo ==
    /\ pc[Main] = "probe_video"
    /\ \E outcome \in ProbeOutcomes :
         /\ probes' = probes @@ ("video" :> outcome)
         /\ video_path' = StagedPath("video", temp_num[Main],
                                     GetExtensionFromUrl(outcome))
    /\ pc' = [pc EXCEPT ![Main] = "fetch_video"]
    /\ UNCHANGED <<temp_num, exitStatus, tempRoot, ffmpegOnPath, dirs,
                   requested, output_path, audio_path, fetched, files,
                   mergeRuns, mergeResult, steps>>

\* What SmartDL.start() can do: write the file, return without one, or raise.
FetchOutcomes == {"created", "not_created", "raised"}

\* download_file (lines 37-44): the call returns when the download is over;
\* an exception of the downloader is not caught.
DownloadFile(role, outcome, next) ==
    /\ fetched' = fetched \cup {role}
    /\ files' = IF outcome = "created" THEN files \cup {role} ELSE files
    /\ IF outcome = "raised"
       THEN /\ pc' = [pc EXCEPT ![Main] = "crashed"]
            /\ exitStatus' = [exitStatus EXCEPT ![Main] = <<1>>]
       ELSE /\ pc' = [pc EXCEPT ![Main] = next]
            /\ UNCHANGED exitStatus

\* download_file(video_url, ...) (line 118).
FetchVideo ==
    /\ pc[Main] = "fetch_video"
    /\ \E outcome \in FetchOutcomes : DownloadFile("video", outcome, "probe_audio")
    /\ UNCHANGED <<temp_num, tempRoot, ffmpegOnPath, dirs, requested,
                   output_path, video_path, audio_path, probes, mergeRuns,
                   mergeResult, steps>>

\* get_extension_from_url(audio_url) and the audio path (lines 121-126).
ProbeAudio ==
    /\ pc[Main] = "probe_audio"
    /\ \E outcome \in ProbeOutcomes :
         /\ probes' = probes @@ ("audio" :> outcome)
         /\ audio_path' = StagedPath("audio", temp_num[Main],
                                     GetExtensionFromUrl(outcome))
    /\ pc' = [pc EXCEPT ![Main] = "fetch_audio"]
    /\ UNCHANGED <<temp_num, exitStatus, tempRoot, ffmpegOnPath, dirs,
                   requested, output_path, video_path, fetched, files,
                   mergeRuns, mergeResult, steps>>

\* Where the program goes once download_file(audio_url, ...) has returned:
\* to merge_media_files (line 130).
AfterFetches == "merge"

\* download_file(audio_url, ...) (line 128).
FetchAudio ==
    /\ pc[Main] = "fetch_audio"
    /\ \E outcome \in FetchOutcomes : DownloadFile("audio", outcome, AfterFetches)
    /\ UNCHANGED <<temp_num, tempRoot, ffmpegOnPath, dirs, requested,
                   output_path, video_path, audio_path, probes, mergeRuns,
                   mergeResult, steps>>

\* How the ffmpeg child process can end: it exits zero only with both of its
\* inputs on disk; else it exits non-zero or cannot be started.
MergeOutcomes ==
    IF files = Roles THEN {"ok", "nonzero", "not_started"}
    ELSE {"nonzero", "not_started"}

\* Every ancestor directory of p, p's parent included.
Ancestors(p) == {SubSeq(p.parts, 1, k) : k \in 1..(Len(p.parts) - 1)}

\* Mutant: run(...) without check=True, a failure is not noticed.
AfterMergeUnchecked(outcome) == "teardown"

\* Where merge_media_files goes after run(...): on to the statements after
\* the merge, or to exit() from the except clause (lines 57-62).
AfterMerge(outcome) == IF outcome = "ok" THEN "teardown" ELSE "exited"

\* merge_media_files (lines 47-64): the output's parent is created (an OSError
\* there is not caught), then ffmpeg runs once.
MergeMediaFiles ==
    /\ pc[Main] = "merge"
    /\ \E made \in BOOLEAN :
         IF ~made
         THEN /\ pc' = [pc EXCEPT ![Main] = "crashed"]
              /\ exitStatus' = [exitStatus EXCEPT ![Main] = <<1>>]
              /\ UNCHANGED <<dirs, mergeRuns, mergeResult, steps>>
         ELSE \E outcome \in MergeOutcomes :
              /\ dirs' = dirs \cup Ancestors(output_path)
              /\ mergeRuns' = mergeRuns + 1
              /\ mergeResult' = IF outcome = "ok" THEN "ok" ELSE "failed"
              /\ pc' = [pc EXCEPT ![Main] = AfterMerge(outcome)]
              /\ exitStatus' = IF AfterMerge(outcome) = "exited"
                               THEN [exitStatus EXCEPT ![Main] = <<0>>]
                               ELSE exitStatus
              /\ steps' = IF AfterMerge(outcome) = "exited" THEN steps
                          ELSE steps \cup {"merged_log"}
    /\ UNCHANGED <<temp_num, tempRoot, ffmpegOnPath, requested, output_path,
                   video_path, audio_path, probes, fetched, files>>

\* rmtree(temp_dir) and the end of the script (lines 132-135).
Teardown ==
    /\ pc[Main] = "teardown"
    /\ tempRoot' = tempRoot \ {temp_num[Main]}
    /\ files' = {}
    /\ steps' = steps \cup {"rmtree", "finished"}
    /\ pc' = [pc EXCEPT ![Main] = "done"]
    /\ exitStatus' = [exitStatus EXCEPT ![Main] = <<0>>]
    /\ UNCHANGED <<temp_num, ffmpegOnPath, dirs, requested, output_path,
                   video_path, audio_path, probes, fetched, mergeRuns,
                   mergeResult>>

\* -------------------------------------------------- Spec: one program run

\* The -o arguments the pipeline is run with.
RequestedSample ==
    {NoRequest, Request(<<>>), Request(<<" ">>), Request(<<"a">>),
     Request(<<"a", ".", "a">>), Request(<<"a", ".", " ">>)}

\* The directories that may exist under the working directory.
DirSets == {{}, {<<<<"w">>, <<"a">>>>}, {<<<<"w">>, <<"a", ".", "a">>>>}}

PipelineStart ==
    /\ dirs \in DirSets
    /\ requested = NoRequest
    /\ output_path = NoPath
    /\ video_path = NoPath
    /\ audio_path = NoPath
    /\ probes = <<>>
    /\ fetched = {}
    /\ files = {}
    /\ mergeRuns = 0
    /\ mergeResult = "none"
    /\ steps = {}

\* One run starts; the temp root may hold directories left by earlier runs.
Init ==
    /\ pc = [r \in Runs |-> IF r = Main THEN "gen" ELSE "absent"]
    /\ temp_num = [r \in Runs |-> NoId]
    /\ exitStatus = [r \in Runs |-> <<>>]
    /\ tempRoot \in SUBSET Ids
    /\ ffmpegOnPath \in BOOLEAN
    /\ PipelineStart

Next ==
    \/ GenTempInfo(Main)
    \/ CheckExists(Main)
    \/ Mkdir(Main)
    \/ LocateTool
    \/ ResolveOutput(RequestedSample)
    \/ ProbeVideo
    \/ FetchVideo
    \/ ProbeAudio
    \/ FetchAudio
    \/ MergeMediaFiles
    \/ Teardown

Spec == Init /\ [][Next]_vars

\* ----------------------------- SpecSessions: runs that share the temp root

\* A run's download_and_merge as the temp root sees it: the run ends with
\* its directory left in place (exit() at lines 62 and 77, or an uncaught
\* exception) ...
RunExits(r) ==
    /\ pc[r] = "main"
    /\ \E how \in {"exited", "crashed"} :
         /\ pc' = [pc EXCEPT ![r] = how]
         /\ exitStatus' = [exitStatus EXCEPT ![r] = IF how = "exited" THEN <<0>> ELSE <<1>>]
    /\ UNCHANGED <<temp_num, tempRoot, pipelineVars>>

\* ... or with rmtree(temp_dir) (line 133).
RunTearsDown(r) ==
    /\ pc[r] = "main"
    /\ tempRoot' = tempRoot \ {temp_num[r]}
    /\ pc' = [pc EXCEPT ![r] = "done"]
    /\ exitStatus' = [exitStatus EXCEPT ![r] = <<0>>]
    /\ UNCHANGED <<temp_num, pipelineVars>>

InitSessions ==
    /\ pc = [r \in Runs |-> "gen"]
    /\ temp_num = [r \in Runs |-> NoId]
    /\ exitStatus = [r \in Runs |-> <<>>]
    /\ tempRoot \in SUBSET Ids
    /\ ffmpegOnPath = TRUE
    /\ PipelineStart

NextSessions ==
    \E r \in Runs :
        \/ GenTempInfo(r)
        \/ CheckExists(r)
        \/ Mkdir(r)
        \/ RunExits(r)
        \/ RunTearsDown(r)

SpecSessions == InitSessions /\ [][NextSessions]_vars

\* ------------------------------------ SpecResolve: the output path alone

Alphabet == {"a", ".", " ", "/"}

\* Every requested output path of at most MaxLen characters, and none.
RequestedPaths ==
    {NoRequest} \cup
    UNION {{Request(t) : t \in [1..n -> Alphabet]} : n \in 0..MaxLen}

InitResolve ==
    /\ pc = [r \in Runs |-> IF r = Main THEN "resolve" ELSE "absent"]
    /\ \E num \in Ids :
         /\ temp_num = [r \in Runs |-> IF r = Main THEN num ELSE NoId]
         /\ tempRoot = {num}
    /\ exitStatus = [r \in Runs |-> <<>>]
    /\ ffmpegOnPath = TRUE
    /\ PipelineStart

NextResolve == ResolveOutput(RequestedPaths)

SpecResolve == InitResolve /\ [][NextResolve]_vars

\* ------------------------------------------------------------------ claims

\* The run has created its workspace directory and not removed it.
Owns(r) ==
    pc[r] \notin {"absent", "gen", "check", "mkdir", "mkdir_failed", "done"}

\* C1: the merge child process is started only in a state where both the
\* staged video file and the staged audio file exist on disk.
C1_MergeOnlyWithBothFiles ==
    [][mergeRuns' > mergeRuns => files = Roles]_vars

\* C2: in every terminal state of the run its workspace directory no longer
\* exists.
C2_WorkspaceRemovedOnEveryExit ==
    pc[Main] \in Terminal => temp_num[Main] \notin tempRoot

\* C3: the exit status is 0 only after a successful merge and the removal of
\* the workspace, and every fatal termination (exit() for a missing tool or
\* a failed merge) has a non-zero exit status.
C3_ExitStatus ==
    /\ exitStatus[Main] = <<0>> => (mergeResult = "ok" /\ "rmtree" \in steps)
    /\ pc[Main] = "exited" => (exitStatus[Main] # <<>> /\ exitStatus[Main] # <<0>>)

\* C4: in a run where the tool lookup fails no extension probe and no fetch
\* is ever made, for either URL, and the run ends at the lookup.
C4_NoNetworkWithoutTool ==
    ~ffmpegOnPath =>
        /\ DOMAIN probes = {}
        /\ fetched = {}
        /\ pc[Main] \in {"gen", "check", "mkdir", "main", "exited"}

C4_Witness ==
    ~ffmpegOnPath /\ pc[Main] = "exited" /\ temp_num[Main] \in tempRoot

\* C5: no two runs own the same workspace directory at the same time, and a
\* run that comes to own a directory created it: the directory did not exist
\* before the run's mkdir.
C5_SessionsDistinct ==
    /\ [](\A r, q \in Runs :
             (r # q /\ Owns(r) /\ Owns(q)) => temp_num[r] # temp_num[q])
    /\ [][\A r \in Runs :
             (~Owns(r) /\ Owns(r)') => (temp_num[r] \notin tempRoot
                                        /\ temp_num'[r] = temp_num[r]
                                        /\ temp_num[r] \in tempRoot')]_vars

\* Two runs drew the same identifier and both passed the exists() test: one
\* owns the directory, the other's mkdir failed.
C5_Witness ==
    \E r, q \in Runs :
        /\ r # q
        /\ Owns(r)
        /\ pc[q] = "mkdir_failed"
        /\ temp_num[q] = temp_num[r]

\* The output path has been resolved.
Resolved == output_path # NoPath

\* No -o, or an empty or whitespace-only one.
RequestBlank == ~requested.present \/ Strip(requested.text) = <<>>

\* The requested path is an existing directory, or its name has no extension.
RequestDirOrNoExt ==
    /\ ~RequestBlank
    /\ \/ IsDir(PathOf(requested.text), dirs)
       \/ Suffix(PathOf(requested.text)) = <<>>

\* The requested path made absolute.
RequestAbsolute == Resolve(PathOf(requested.text))

\* C6: for an absent, empty, blank, directory or extension-less request the
\* resolved path is absolute, ends in .mp4, is named output_<id>.mp4 and lies
\* in the working directory (absent, empty, blank) or in the requested path.
C6_SynthesizedName ==
    (Resolved /\ (RequestBlank \/ RequestDirOrNoExt)) =>
        /\ output_path.abs
        /\ EndsWith(AsPosix(output_path), MP4)
        /\ Name(output_path) = OutputFileName(temp_num[Main])
        /\ Parent(output_path) = IF RequestBlank THEN Cwd ELSE RequestAbsolute

\* An existing directory whose name has an extension was requested.
C6_Witness ==
    /\ Resolved
    /\ requested = Request(<<"a", ".", "a">>)
    /\ IsDir(PathOf(requested.text), dirs)
    /\ AsPosix(output_path) =
         <<"/", "w", "/", "a", ".", "a", "/">> \o OutputFileName(temp_num[Main])

\* The requested path names a file whose name has an extension.
RequestFileWithExt == ~RequestBlank /\ ~RequestDirOrNoExt

\* The extension has nothing but whitespace after its dot.
RequestExtBlank ==
    Strip(Replace(Suffix(RequestAbsolute), <<".">>, <<>>)) = <<>>

\* The name of p without its suffix.
Stem(p) == SubSeq(Name(p), 1, Len(Name(p)) - Len(Suffix(p)))

\* C7: a file request with a non-empty extension resolves to the absolute,
\* trimmed requested path, extension unchanged; with an extension that is
\* blank after the dot only the suffix becomes .mp4, the parent directories
\* and the stem staying as requested.
C7_ExtensionPreserved ==
    (Resolved /\ RequestFileWithExt) =>
        IF RequestExtBlank
        THEN /\ Parent(output_path) = Parent(RequestAbsolute)
             /\ Name(output_path) = Stem(RequestAbsolute) \o MP4
        ELSE AsPosix(output_path) = Strip(AsPosix(RequestAbsolute))

\* The staged path of a role.
Staged(role) == IF role = "video" THEN video_path ELSE audio_path

\* The probe answered with a content type that has an extension.
Mapped(outcome) ==
    outcome.kind = "header" /\ GuessExtension(outcome.ctype) # <<>>

C9_WaitsForBothFiles ==
    [][(fetched = Roles /\ files # Roles /\ pc[Main] \notin Terminal) =>
          (pc'[Main] \notin Terminal /\ mergeRuns' = mergeRuns)]_vars

\* C10: the merge runs at most once; when it fails the run ends at once by
\* exit(), with none of the later statements executed and the workspace
\* still in place; when it succeeds the run goes on to the teardown.
C10_MergeOnceAndFatal ==
    /\ [](/\ mergeRuns <= 1
          /\ mergeResult = "failed" =>
                /\ pc[Main] = "exited"
                /\ steps = {}
                /\ temp_num[Main] \in tempRoot)
    /\ [][(mergeResult = "none" /\ mergeResult' = "ok") =>
             pc'[Main] = "teardown"]_vars
    /\ [][(mergeResult = "none" /\ mergeResult' # "none") =>
             mergeRuns' = 1]_vars

C10_Witness ==
    /\ mergeResult = "failed"
    /\ mergeRuns = 1
    /\ pc[Main] = "exited"
    /\ files = Roles

====
